---- MODULE Spec2Model ----
(***************************************************************************)
(* The project store of the CloudArch++ design tool (React context         *)
(* ProjectProvider), its phase gate, its debounced auto-save against the   *)
(* persistence endpoints and its validation requests against the           *)
(* validation endpoint.                                                    *)
(*                                                                         *)
(* One action is one event handler, timer callback or promise continuation *)
(* together with the React render and the effects that follow it.          *)
(***************************************************************************)
EXTENDS Integers, Sequences, FiniteSets, TLC

\* ---------------------------------------------------------------- bounds
\* Latest instant of the clock: every mutation reads a later instant than the
\* one before it, so this bounds the number of revisions in one run.
MaxTime == 3
\* PATCH requests in flight at once.
MaxWrites == 2
\* Validation requests outstanding at once.
MaxValidations == 4
\* Dependency edges among the services of a stored project.
MaxEdges == 3
\* Container configurations of a stored project.
MaxConfigs == 2
\* Environment variables of a container configuration.
MaxEnv == 2

\* ------------------------------------------------------------ data model
Phases == {"A", "B", "C", "D"}
\* Phase tokens a caller can pass, one of them outside A..D.
PhaseTokens == Phases \cup {"E"}
phaseOrder == <<"A", "B", "C", "D">>

\* phaseOrder.indexOf(phase): -1 when absent.
indexOf(phase) ==
  IF \E i \in 1..Len(phaseOrder) : phaseOrder[i] = phase
  THEN (CHOOSE i \in 1..Len(phaseOrder) : phaseOrder[i] = phase) - 1
  ELSE -1

Collections ==
  {"boundedContexts", "services", "containerConfigs", "sloDefinitions",
   "autoscalingStrategies", "k8sManifests", "resiliencePatterns",
   "observabilityConfigs"}

\* The generated ids of the items a run adds, and of the projects it creates
\* (server rows and local fallbacks together).
Ids == {1}
ProjectIds == {1, 2}
Names == {"arch"}

\* The value of `project` when no project is active (null), also the value of
\* an unarmed timer slot.
NoProject == [id |-> 0]
NoTimer == NoProject

\* createEmptyProject / DatabaseStorage.createProject: phase A, eight empty
\* collections, both timestamps the instant of creation.
createEmptyProject(id, name, t) ==
  [id |-> id, name |-> name, description |-> "", currentPhase |-> "A",
   boundedContexts |-> <<>>, services |-> <<>>, containerConfigs |-> <<>>,
   sloDefinitions |-> <<>>, autoscalingStrategies |-> <<>>,
   k8sManifests |-> <<>>, resiliencePatterns |-> <<>>,
   observabilityConfigs |-> <<>>, createdAt |-> t, updatedAt |-> t]

\* The item a workspace form submits for a collection, with a generated id.
NewItem(c, i) ==
  CASE c = "services" ->
         [id |-> i, name |-> i, boundedContext |-> "", dependencies |-> <<>>]
    [] c = "boundedContexts" -> [id |-> i, name |-> i]
    [] c = "containerConfigs" ->
         [id |-> i, serviceId |-> i, buildType |-> "single-stage",
          healthCheck |-> FALSE]
    [] c = "resiliencePatterns" -> [id |-> i, serviceId |-> i, enabled |-> TRUE]
    [] OTHER -> [id |-> i, serviceId |-> i, target |-> 1]

\* The partial item an edit form submits for a collection.
PatchFor(c) ==
  CASE c = "services" -> [boundedContext |-> "core"]
    [] c = "boundedContexts" -> [name |-> 9]
    [] c = "containerConfigs" -> [buildType |-> "multi-stage"]
    [] c = "resiliencePatterns" -> [enabled |-> FALSE]
    [] OTHER -> [target |-> 2]

\* { ...item, ...updates }
Spread(item, updates) ==
  [f \in DOMAIN item \cup DOMAIN updates |->
     IF f \in DOMAIN updates THEN updates[f] ELSE item[f]]

\* A map that patches every item whatever its id.
MapUpdateAny(items, id, updates) ==
  [k \in 1..Len(items) |-> Spread(items[k], updates)]

\* array.map(x => x.id === id ? { ...x, ...updates } : x)
MapUpdate(items, id, updates) ==
  [k \in 1..Len(items) |->
     IF items[k].id = id THEN Spread(items[k], updates) ELSE items[k]]

\* A filter that keeps the first item whatever its id.
FilterOutKeepFirst(items, id) ==
  SelectSeq(items, LAMBDA x : x.id # id \/ x = items[1])

\* array.filter(x => x.id !== id)
FilterOut(items, id) == SelectSeq(items, LAMBDA x : x.id # id)

HasId(items, id) == \E k \in 1..Len(items) : items[k].id = id

\* Sequences over S of length at most n.
SeqUpTo(S, n) == UNION {[1..m -> S] : m \in 0..n}

\* --------------------------------------------------------------- phase gate
\* A gate that reads the collection of the phase before.
canAdvanceToPhaseShifted(p, phase) ==
  IF p = NoProject THEN FALSE
  ELSE CASE phase = "A" -> TRUE
         [] phase = "B" -> TRUE
         [] phase = "C" -> Len(p.services) > 0
         [] phase = "D" -> Len(p.containerConfigs) > 0
         [] OTHER -> FALSE

canAdvanceToPhase(p, phase) ==
  IF p = NoProject THEN FALSE
  ELSE CASE phase = "A" -> TRUE
         [] phase = "B" -> Len(p.services) > 0
         [] phase = "C" -> Len(p.containerConfigs) > 0
         [] phase = "D" -> Len(p.k8sManifests) > 0
         [] OTHER -> FALSE

\* A click condition that gates backward navigation too.
isClickableGateOnly(p, cur, phase) ==
  phase = cur \/ canAdvanceToPhase(p, phase)

\* The condition of both handlePhaseClick handlers and of isClickable.
isClickable(p, cur, phase) ==
  indexOf(phase) <= indexOf(cur) \/ canAdvanceToPhase(p, phase)

\* ------------------------------------------------------- validation engine
Result(phase, category, status, n) ==
  [phase |-> phase, category |-> category, status |-> status, n |-> n]

\* A scan that reports nothing.
DepScanNone(services, s, d, seen) == <<>>

\* The circular-dependency scan over services s.. and the dependencies d.. of
\* service s, given the edges recorded so far.
RECURSIVE DepScan(_, _, _, _)
DepScan(services, s, d, seen) ==
  IF s > Len(services) THEN <<>>
  ELSE IF d > Len(services[s].dependencies)
       THEN DepScan(services, s + 1, 1, seen)
       ELSE LET name == services[s].name
                dep == services[s].dependencies[d]
                rest == DepScan(services, s, d + 1, seen \cup {<<name, dep>>})
            IN IF <<dep, name>> \in seen
               THEN <<[phase |-> "A", category |-> "Dependencies",
                       status |-> "error", n |-> 0, pair |-> <<name, dep>>]>>
                    \o rest
               ELSE rest

Count(items, P(_)) == Len(SelectSeq(items, P))

\* Phase A rules with the bounded-context rule evaluated first.
ValidateAContextsFirst(p) ==
  (IF Len(p.boundedContexts) = 0
   THEN <<Result("A", "Bounded Contexts", "warning", 0)>>
   ELSE <<Result("A", "Bounded Contexts", "passed", Len(p.boundedContexts))>>)
  \o
  (IF Len(p.services) = 0
   THEN <<Result("A", "Services", "failed", 0)>>
   ELSE <<Result("A", "Services", "passed", Len(p.services))>>)
  \o DepScan(p.services, 1, 1, {})

ValidateA(p) ==
  (IF Len(p.services) = 0
   THEN <<Result("A", "Services", "failed", 0)>>
   ELSE <<Result("A", "Services", "passed", Len(p.services))>>)
  \o
  (IF Len(p.boundedContexts) = 0
   THEN <<Result("A", "Bounded Contexts", "warning", 0)>>
   ELSE <<Result("A", "Bounded Contexts", "passed", Len(p.boundedContexts))>>)
  \o
  (LET orphans == Count(p.services, LAMBDA s : s.boundedContext = "")
   IN IF orphans > 0
      THEN <<Result("A", "Service Assignment", "warning", orphans)>>
      ELSE <<>>)
  \o DepScan(p.services, 1, 1, {})

\* Phase B rules that fail the configuration rule whenever a service lacks
\* a configuration.
ValidateBNoWarning(p) ==
  LET configured == {p.containerConfigs[k].serviceId :
                       k \in 1..Len(p.containerConfigs)}
      unconfigured == SelectSeq(p.services, LAMBDA s : s.id \notin configured)
  IN IF Len(unconfigured) > 0
     THEN <<[phase |-> "B", category |-> "Configuration",
             status |-> "failed", n |-> Len(unconfigured),
             names |-> [k \in 1..Len(unconfigured) |-> unconfigured[k].name]]>>
     ELSE <<>>

ValidateB(p) ==
  LET configured == {p.containerConfigs[k].serviceId :
                       k \in 1..Len(p.containerConfigs)}
      unconfigured == SelectSeq(p.services, LAMBDA s : s.id \notin configured)
      singleStage == Count(p.containerConfigs,
                           LAMBDA c : c.buildType = "single-stage")
      noHealthCheck == Count(p.containerConfigs, LAMBDA c : ~c.healthCheck)
  IN (IF Len(unconfigured) > 0
      THEN <<[phase |-> "B", category |-> "Configuration",
              status |-> IF Len(unconfigured) = Len(p.services)
                         THEN "failed" ELSE "warning",
              n |-> Len(unconfigured),
              names |-> [k \in 1..Len(unconfigured) |-> unconfigured[k].name]]>>
      ELSE IF Len(p.containerConfigs) > 0
           THEN <<Result("B", "Configuration", "passed", 0)>>
           ELSE <<>>)
     \o
     (IF singleStage > 0
      THEN <<Result("B", "Build Optimization", "info", singleStage)>>
      ELSE <<>>)
     \o
     (IF noHealthCheck > 0
      THEN <<Result("B", "Health Checks", "warning", noHealthCheck)>>
      ELSE <<>>)

ValidateC(p) ==
  (IF Len(p.k8sManifests) = 0
   THEN <<Result("C", "Manifests", "failed", 0)>>
   ELSE <<Result("C", "Manifests", "passed", Len(p.k8sManifests))>>)
  \o
  (IF Len(p.sloDefinitions) = 0
   THEN <<Result("C", "SLOs", "warning", 0)>> ELSE <<>>)
  \o
  (IF Len(p.autoscalingStrategies) = 0
   THEN <<Result("C", "Autoscaling", "info", 0)>> ELSE <<>>)

ValidateD(p) ==
  (IF Len(p.resiliencePatterns) = 0
   THEN <<Result("D", "Resilience", "warning", 0)>>
   ELSE <<Result("D", "Resilience", "passed", Len(p.resiliencePatterns))>>)
  \o
  (IF Len(p.observabilityConfigs) = 0
   THEN <<Result("D", "Observability", "warning", 0)>>
   ELSE <<Result("D", "Observability", "passed",
                 Len(p.observabilityConfigs))>>)

\* POST /api/validate: the validations array for (project, phase). The
\* generated id of a result is left out: it is a fresh token nothing reads.
Validate(p, phase) ==
  CASE phase = "A" -> ValidateA(p)
    [] phase = "B" -> ValidateB(p)
    [] phase = "C" -> ValidateC(p)
    [] phase = "D" -> ValidateD(p)
    [] OTHER -> <<>>

\* ------------------------------------------------------------------ state
VARIABLES
  project,                      \* useState: the active project or null
  currentPhase,                 \* useState: the store's phase
  validationResults,            \* useState
  recommendations,              \* useState
  isLoading,                    \* useState
  isSaving,                     \* useState
  isValidating,                 \* useState
  isGeneratingRecommendations,  \* useState
  pendingSave,                  \* useState
  timer,        \* the project captured by the armed debounce timer, or NoTimer
  writes,       \* PATCH /api/projects/:id requests in flight
  server,       \* the rows of the projects table, by id
  validations,  \* POST /api/validate requests outstanding
  recRequests,  \* POST /api/recommendations requests outstanding
  creating,     \* the POST /api/projects request in flight, or NoCreate
  now,          \* the clock read by new Date()
  nextId,       \* the next generated project id
  generated,    \* the generator call answered last: its arguments and text
  h             \* history of the run, read by the properties only

vars ==
  <<project, currentPhase, validationResults, recommendations, isLoading,
    isSaving, isValidating, isGeneratingRecommendations, pendingSave, timer,
    writes, server, validations, recRequests, creating, now, nextId,
    generated, h>>

\* Every variable but the history.
storeVars ==
  <<project, currentPhase, validationResults, recommendations, isLoading,
    isSaving, isValidating, isGeneratingRecommendations, pendingSave, timer,
    writes, server, validations, recRequests, creating, now, nextId,
    generated>>

NoCreate == [name |-> ""]
NoClick == [target |-> ""]
NoRequest == [n |-> 0]
NoText == [kind |-> ""]

\* History kept for the properties: what has happened to the active project
\* since it became active.
NoHistory ==
  [mutations |-> 0,      \* mutations applied
   issued |-> {},        \* snapshots an auto-save write was issued for
   failed |-> {},        \* snapshots whose auto-save write failed
   overlap |-> FALSE,    \* two writes were in flight at once
   writeFailed |-> FALSE,\* a write failed
   lastReq |-> NoRequest,\* the validation request issued last
   lastOk |-> FALSE,     \* ... has been answered successfully
   valOverlap |-> FALSE, \* ... was issued while another was outstanding
   click |-> [target |-> ""],  \* the navigation click or direct call
                               \* handled last, if no other mutation or
                               \* lifecycle handler ran since
   answer |-> [op |-> "", status |-> 0]]  \* the persistence or recommendation request
                               \* answered last

\* What the history records of an answered request: the endpoint, the id in
\* its path, the body sent (for the recommendations, the list received) and
\* the status.
Answer(op, id, body, status) ==
  [op |-> op, id |-> id, body |-> body, status |-> status]

Init ==
  /\ project = NoProject
  /\ currentPhase = "A"
  /\ validationResults = <<>>
  /\ recommendations = <<>>
  /\ isLoading = FALSE
  /\ isSaving = FALSE
  /\ isValidating = FALSE
  /\ isGeneratingRecommendations = FALSE
  /\ pendingSave = FALSE
  /\ timer = NoTimer
  /\ writes = {}
  /\ server = [i \in ProjectIds |-> NoProject]
  /\ validations = {}
  /\ recRequests = 0
  /\ creating = NoCreate
  /\ now = 0
  /\ nextId = 1
  /\ generated = NoText
  /\ h = NoHistory

\* ---------------------------------------------------- render and effects
\* The dependency array of the validation effect.
ValidationDeps(p, phase) ==
  IF p = NoProject THEN <<phase, -1, -1, -1>>
  ELSE <<phase, Len(p.services), Len(p.containerConfigs), Len(p.k8sManifests)>>

\* The auto-save effect after a render: when project or pendingSave changed
\* the cleanup clears the armed timer, and the effect arms a new one capturing
\* the rendered project if there is a project and a save is pending.
AutoSaveEffect(p2, ps2, changed) ==
  IF changed \/ ps2 # pendingSave
  THEN IF p2 # NoProject /\ ps2 THEN p2 ELSE NoTimer
  ELSE timer

\* The request runValidation sends for project p and phase `phase`; n tells
\* outstanding requests with the same body apart.
ValidationRequest(p, phase) ==
  [project |-> p, phase |-> phase,
   n |-> CHOOSE n \in 1..(MaxValidations + 1) :
           /\ [project |-> p, phase |-> phase, n |-> n] \notin validations
           /\ \A m \in 1..(n - 1) :
                [project |-> p, phase |-> phase, n |-> m] \in validations]

\* runValidation of the render with project p and phase `phase`: sets the
\* flag and sends the request.
RunValidation(p, phase) ==
  /\ Cardinality(validations) < MaxValidations
  /\ isValidating' = TRUE
  /\ validations' = validations \cup {ValidationRequest(p, phase)}

\* Whether the validation effect runs after a render from (p, phase) to
\* (p2, ph2): a dependency changed and there is a project.
ValidationEffect(p, phase, p2, ph2) ==
  p2 # NoProject /\ ValidationDeps(p2, ph2) # ValidationDeps(p, phase)

\* A render that commits project p2 (a new object iff `changed`), phase ph2
\* and pendingSave ps2, followed by the two effects.
Render(p2, ph2, ps2, changed) ==
  /\ project' = p2
  /\ currentPhase' = ph2
  /\ pendingSave' = ps2
  /\ timer' = AutoSaveEffect(p2, ps2, changed)
  /\ IF ValidationEffect(project, currentPhase, p2, ph2)
     THEN RunValidation(p2, ph2)
     ELSE UNCHANGED <<isValidating, validations>>

\* What the history records of the validation request a render may issue.
HistoryOfRender(hist) ==
  IF validations' # validations
  THEN [hist EXCEPT !.lastReq = ValidationRequest(project', currentPhase'),
                    !.lastOk = FALSE,
                    !.valOverlap = validations # {}]
  ELSE hist

\* ----------------------------------------------------------- mutations
\* An update that returns the project to phase A when it leaves no service.
updateProjectLocalRegating(prev, updates, t) ==
  [f \in DOMAIN prev |->
     IF f = "updatedAt" THEN t
     ELSE IF f = "currentPhase" /\ "services" \in DOMAIN updates
             /\ updates.services = <<>> THEN "A"
     ELSE IF f \in DOMAIN updates THEN updates[f] ELSE prev[f]]

\* setProject(prev => ({ ...prev, ...updates, updatedAt: now })).
updateProjectLocal(prev, updates, t) ==
  [f \in DOMAIN prev |->
     IF f = "updatedAt" THEN t
     ELSE IF f \in DOMAIN updates THEN updates[f] ELSE prev[f]]

\* A store mutation called from a rendered workspace: updateProjectLocal and
\* setPendingSave(true), with the store's phase set to ph2.
Mutate(updates, ph2, click) ==
  /\ project # NoProject
  /\ now < MaxTime
  /\ now' = now + 1
  /\ Render(updateProjectLocal(project, updates, now + 1), ph2, TRUE, TRUE)
  /\ h' = HistoryOfRender([h EXCEPT !.mutations = @ + 1, !.click = click])
  /\ UNCHANGED <<generated, validationResults, recommendations, isLoading,
                 isSaving, isGeneratingRecommendations, writes, server,
                 recRequests, creating, nextId>>

\* add<Collection>(item): append to the rendered project's collection.
addItem(c, i) ==
  /\ project # NoProject
  /\ ~HasId(project[c], i)
  /\ Mutate(c :> Append(project[c], NewItem(c, i)), currentPhase, NoClick)

\* update<Collection>(id, updates); `call` is what the history records of it.
updateItemBy(c, id, call) ==
  /\ project # NoProject
  /\ Mutate(c :> MapUpdate(project[c], id, PatchFor(c)), currentPhase, call)

updateItem(c, id) == updateItemBy(c, id, NoClick)

\* remove<Collection>(id); `call` is what the history records of it.
removeItemBy(c, id, call) ==
  /\ project # NoProject
  /\ Mutate(c :> FilterOut(project[c], id), currentPhase, call)

removeItem(c, id) == removeItemBy(c, id, NoClick)

\* A setPhase that consults the phase gate and does nothing when it is closed.
setPhaseGated(phase, click) ==
  IF canAdvanceToPhase(project, phase)
  THEN Mutate([currentPhase |-> phase], phase, click)
  ELSE h' = [h EXCEPT !.click = click] /\ UNCHANGED storeVars

\* setPhase(phase): setCurrentPhase and updateProjectLocal({currentPhase}).
setPhase(phase, click) == Mutate([currentPhase |-> phase], phase, click)

\* ----------------------------------------------------------- navigation
\* What the history records of a click on the control of `phase`.
Click(phase) ==
  [target |-> phase, from |-> currentPhase,
   gate |-> canAdvanceToPhase(project, phase), before |-> project]

\* A click that no handler acts on.
Ignored(phase) == h' = [h EXCEPT !.click = Click(phase)] /\ UNCHANGED storeVars

\* handlePhaseClick of the sidebar and of the progress stepper.
handlePhaseClick(phase) ==
  IF isClickable(project, currentPhase, phase)
  THEN setPhase(phase, Click(phase))
  ELSE Ignored(phase)

SidebarClick(phase) == project # NoProject /\ handlePhaseClick(phase)

ProgressClick(phase) == project # NoProject /\ handlePhaseClick(phase)

\* The Continue button of the workspace of the current phase, disabled while
\* the gate of the next phase is closed.
ContinueTarget(phase) ==
  CASE phase = "A" -> "B" [] phase = "B" -> "C" [] phase = "C" -> "D"
    [] OTHER -> phase

ContinueClick ==
  /\ project # NoProject
  /\ currentPhase \in {"A", "B", "C"}
  /\ IF canAdvanceToPhase(project, ContinueTarget(currentPhase))
     THEN setPhase(ContinueTarget(currentPhase),
                   Click(ContinueTarget(currentPhase)))
     ELSE Ignored(ContinueTarget(currentPhase))

\* The Back button of the workspace of the current phase.
BackTarget(phase) ==
  CASE phase = "B" -> "A" [] phase = "C" -> "B" [] phase = "D" -> "C"
    [] OTHER -> phase

BackClick ==
  /\ project # NoProject
  /\ currentPhase \in {"B", "C", "D"}
  /\ setPhase(BackTarget(currentPhase), Click(BackTarget(currentPhase)))

\* ------------------------------------------------------ project lifecycle
\* createProject up to its await: the New Project dialog and the quick-start
\* button are rendered only while no project is active.
CreateProjectStart(name) ==
  /\ project = NoProject
  /\ creating = NoCreate
  /\ nextId \in ProjectIds
  /\ isLoading' = TRUE
  /\ creating' = [name |-> name]
  /\ UNCHANGED <<generated, project, currentPhase, validationResults,
                 recommendations, isSaving, isValidating,
                 isGeneratingRecommendations, pendingSave, timer, writes,
                 server, validations, recRequests, now, nextId, h>>

\* POST /api/projects answers 201 with the stored row: the try branch.
CreateProjectOk ==
  /\ creating # NoCreate
  /\ LET newProject == createEmptyProject(nextId, creating.name, now)
     IN /\ server' = [server EXCEPT ![nextId] = newProject]
        /\ Render(newProject, "A", pendingSave, TRUE)
  /\ validationResults' = <<>>
  /\ recommendations' = <<>>
  /\ isLoading' = FALSE
  /\ creating' = NoCreate
  /\ nextId' = nextId + 1
  /\ h' = HistoryOfRender(NoHistory)
  /\ UNCHANGED <<generated, isSaving, isGeneratingRecommendations, writes,
                 recRequests, now>>

\* POST /api/projects fails: the catch branch falls back to a local project.
CreateProjectFail ==
  /\ creating # NoCreate
  /\ Render(createEmptyProject(nextId, creating.name, now), "A", pendingSave,
            TRUE)
  /\ isLoading' = FALSE
  /\ creating' = NoCreate
  /\ nextId' = nextId + 1
  /\ h' = HistoryOfRender(NoHistory)
  /\ UNCHANGED <<generated, validationResults, recommendations, isSaving,
                 isGeneratingRecommendations, writes, server, recRequests,
                 now>>

\* A loadProject that sets the project and leaves the store's phase.
LoadProjectKeepPhase(id) ==
  /\ server[id] # NoProject
  /\ Render(server[id], currentPhase, pendingSave, TRUE)
  /\ h' = HistoryOfRender(NoHistory)
  /\ UNCHANGED <<generated, validationResults, recommendations, isLoading,
                 isSaving, isGeneratingRecommendations, writes, server,
                 recRequests, creating, now, nextId>>

\* loadProject(proj) with a stored row.
LoadProject(id) ==
  /\ server[id] # NoProject
  /\ Render(server[id], server[id].currentPhase, pendingSave, TRUE)
  /\ h' = HistoryOfRender(NoHistory)
  /\ UNCHANGED <<generated, validationResults, recommendations, isLoading,
                 isSaving, isGeneratingRecommendations, writes, server,
                 recRequests, creating, now, nextId>>

\* resetProject, the Close Project button.
ResetProject ==
  /\ project # NoProject
  /\ Render(NoProject, "A", pendingSave, TRUE)
  /\ validationResults' = <<>>
  /\ recommendations' = <<>>
  /\ h' = NoHistory
  /\ UNCHANGED <<generated, isLoading, isSaving, isGeneratingRecommendations,
                 writes, server, recRequests, creating, now, nextId>>

\* ------------------------------------------------------------ persistence
Write(snap, kind) == [snap |-> snap, kind |-> kind, stage |-> "sent"]

\* The debounce timer fires: setIsSaving(true) and the PATCH is sent with the
\* project the timer captured.
TimerFire ==
  /\ timer # NoTimer
  /\ Cardinality(writes) < MaxWrites
  /\ Write(timer, "auto") \notin writes
  /\ isSaving' = TRUE
  /\ writes' = writes \cup {Write(timer, "auto")}
  /\ timer' = NoTimer
  /\ h' = [h EXCEPT !.issued = @ \cup {timer},
                    !.overlap = @ \/ writes # {}]
  /\ UNCHANGED <<generated, project, currentPhase, validationResults,
                 recommendations, isLoading, isValidating,
                 isGeneratingRecommendations, pendingSave, server, validations,
                 recRequests, creating, now, nextId>>

\* saveProject(): an immediate PATCH of the rendered project.
SaveProject ==
  /\ project # NoProject
  /\ Cardinality(writes) < MaxWrites
  /\ Write(project, "manual") \notin writes
  /\ isSaving' = TRUE
  /\ writes' = writes \cup {Write(project, "manual")}
  /\ h' = [h EXCEPT !.overlap = @ \/ writes # {}]
  /\ UNCHANGED <<generated, project, currentPhase, validationResults,
                 recommendations, isLoading, isValidating,
                 isGeneratingRecommendations, pendingSave, timer, server,
                 validations, recRequests, creating, now, nextId>>

\* DatabaseStorage.updateProject: every field the body defines replaces the
\* row's field, except id, createdAt and updatedAt; updatedAt is the server's
\* clock.
updateProjectRow(row, updates, t) ==
  [f \in DOMAIN row |->
     IF f = "updatedAt" THEN t
     ELSE IF f \in {"id", "createdAt"} THEN row[f]
     ELSE IF f \in DOMAIN updates THEN updates[f] ELSE row[f]]

\* PATCH /api/projects/:id reaches the server: the row is updated, or 404.
ServerPatch(w) ==
  /\ w \in writes
  /\ w.stage = "sent"
  /\ IF server[w.snap.id] = NoProject
     THEN /\ writes' = (writes \ {w}) \cup {[w EXCEPT !.stage = "notfound"]}
          /\ UNCHANGED server
     ELSE /\ writes' = (writes \ {w}) \cup {[w EXCEPT !.stage = "ok"]}
          /\ server' = [server EXCEPT ![w.snap.id] =
                          updateProjectRow(@, w.snap, now)]
  /\ UNCHANGED <<generated, project, currentPhase, validationResults,
                 recommendations, isLoading, isSaving, isValidating,
                 isGeneratingRecommendations, pendingSave, timer, validations,
                 recRequests, creating, now, nextId, h>>

\* The finally block of a write: setIsSaving(false), and for the auto-save
\* setPendingSave(false), then the render and the auto-save effect.
\* A finally block that schedules the snapshot again when the write failed.
WriteFinallyRetry(w) ==
  /\ isSaving' = FALSE
  /\ writes' = writes \ {w}
  /\ pendingSave' = pendingSave
  /\ timer' = IF w.kind = "auto" /\ w.stage # "ok" THEN w.snap ELSE timer
  /\ UNCHANGED <<project, currentPhase>>

WriteFinally(w) ==
  /\ isSaving' = FALSE
  /\ writes' = writes \ {w}
  /\ LET ps2 == IF w.kind = "auto" THEN FALSE ELSE pendingSave
     IN /\ pendingSave' = ps2
        /\ timer' = AutoSaveEffect(project, ps2, FALSE)
  /\ UNCHANGED <<project, currentPhase>>

\* The 200 answer of a PATCH arrives: mutateAsync resolves.
WriteResponse(w) ==
  /\ w \in writes
  /\ w.stage = "ok"
  /\ WriteFinally(w)
  /\ UNCHANGED <<generated, validationResults, recommendations, isLoading,
                 isValidating, isGeneratingRecommendations, server,
                 validations, recRequests, creating, now, nextId, h>>

\* A PATCH fails (404, 500 or the network, before or after the server handled
\* it): mutateAsync rejects, the catch block logs.
WriteError(w) ==
  /\ w \in writes
  /\ WriteFinally(w)
  /\ h' = [h EXCEPT !.writeFailed = TRUE,
                    !.failed = IF w.kind = "auto" THEN @ \cup {w.snap} ELSE @]
  /\ UNCHANGED <<generated, validationResults, recommendations, isLoading,
                 isValidating, isGeneratingRecommendations, server,
                 validations, recRequests, creating, now, nextId>>

\* -------------------------------------------------------------- validation
\* The refresh button of the validation panel, disabled while isValidating.
RunValidationClick ==
  /\ project # NoProject
  /\ ~isValidating
  /\ RunValidation(project, currentPhase)
  /\ h' = [h EXCEPT !.lastReq = ValidationRequest(project, currentPhase),
                    !.lastOk = FALSE,
                    !.valOverlap = validations # {}]
  /\ UNCHANGED <<generated, project, currentPhase, validationResults,
                 recommendations, isLoading, isSaving,
                 isGeneratingRecommendations, pendingSave, timer, writes,
                 server, recRequests, creating, now, nextId>>

\* The finally block of runValidation.
ValidationFinally(r) ==
  /\ validations' = validations \ {r}
  /\ isValidating' = FALSE

\* What a resolved validation request stores.
ValidationResultsOf(r) == Validate(r.project, r.phase)

\* A validation answer arrives: setValidationResults(results).
ValidationRespond(r) ==
  /\ r \in validations
  /\ validationResults' = ValidationResultsOf(r)
  /\ ValidationFinally(r)
  /\ h' = IF r = h.lastReq THEN [h EXCEPT !.lastOk = TRUE] ELSE h
  /\ UNCHANGED <<generated, project, currentPhase, recommendations, isLoading,
                 isSaving, isGeneratingRecommendations, pendingSave, timer,
                 writes, server, recRequests, creating, now, nextId>>

\* A validation request fails: the catch block logs.
ValidationFail(r) ==
  /\ r \in validations
  /\ ValidationFinally(r)
  /\ UNCHANGED <<generated, project, currentPhase, validationResults,
                 recommendations, isLoading, isSaving,
                 isGeneratingRecommendations, pendingSave, timer, writes,
                 server, recRequests, creating, now, nextId, h>>

\* --------------------------------------------------------- recommendations
\* What the gateway can answer.
RecommendationLists == {<<>>, <<[type |-> "tip", severity |-> "info"]>>}

\* The Get Tips button, disabled while isGeneratingRecommendations.
FetchRecommendationsClick ==
  /\ project # NoProject
  /\ ~isGeneratingRecommendations
  /\ isGeneratingRecommendations' = TRUE
  /\ recRequests' = recRequests + 1
  /\ UNCHANGED <<generated, project, currentPhase, validationResults,
                 recommendations, isLoading, isSaving, isValidating,
                 pendingSave, timer, writes, server, validations, creating,
                 now, nextId, h>>

\* POST /api/recommendations answers 200 with a list:
\* setRecommendations(recs), then the finally block.
RecommendationsRespond(recs) ==
  /\ recRequests > 0
  /\ recommendations' = recs
  /\ isGeneratingRecommendations' = FALSE
  /\ recRequests' = recRequests - 1
  /\ h' = [h EXCEPT !.answer = Answer("RECOMMEND", 0, recs, 200)]
  /\ UNCHANGED <<generated, project, currentPhase, validationResults,
                 isLoading, isSaving, isValidating, pendingSave, timer, writes,
                 server, validations, creating, now, nextId>>

\* The request fails (500 for a missing credential or an upstream error, or
\* the transport): the catch block logs, then the finally block.
RecommendationsFail ==
  /\ recRequests > 0
  /\ isGeneratingRecommendations' = FALSE
  /\ recRequests' = recRequests - 1
  /\ h' = [h EXCEPT !.answer = Answer("RECOMMEND", 0, <<>>, 500)]
  /\ UNCHANGED <<generated, project, currentPhase, validationResults,
                 recommendations, isLoading, isSaving, isValidating,
                 pendingSave, timer, writes, server, validations, creating,
                 now, nextId>>

\* ---------------------------------------------------------- specification
\* The handlers a user of an open workspace can trigger, over every
\* collection.
Lifecycle ==
  \/ \E name \in Names : CreateProjectStart(name)
  \/ CreateProjectOk
  \/ CreateProjectFail
  \/ ResetProject

Navigation ==
  \/ \E phase \in Phases : SidebarClick(phase)
  \/ \E phase \in Phases : ProgressClick(phase)
  \/ ContinueClick
  \/ BackClick

\* The store with its phase gate: every mutation of every collection, every
\* navigation control. The handlers here read project and currentPhase alone,
\* which no answer of a request and no timer writes, so the requests they send
\* stay outstanding and the timer they arm stays armed.
Next ==
  \/ Lifecycle
  \/ \E c \in Collections, i \in Ids : addItem(c, i)
  \/ \E c \in Collections, i \in Ids : updateItem(c, i)
  \/ \E c \in Collections, i \in Ids : removeItem(c, i)
  \/ Navigation

Spec == Init /\ [][Next]_vars

\* The collections whose length no validation dependency reads: a mutation of
\* one of them is, to the auto-save, a mutation like any other.
SaveCollections == {"boundedContexts"}

\* The store with its debounced auto-save and the persistence endpoints.
NextSave ==
  \/ Lifecycle
  \/ \E c \in SaveCollections, i \in Ids : addItem(c, i)
  \/ \E c \in SaveCollections, i \in Ids : updateItem(c, i)
  \/ TimerFire
  \/ \E w \in writes : ServerPatch(w)
  \/ \E w \in writes : WriteResponse(w)
  \/ \E w \in writes : WriteError(w)

SpecSave == Init /\ [][NextSave]_vars

\* The collections a validation dependency reads, one of them.
ValidatedCollections == {"services"}

\* The store with its validation requests and their answers.
NextValidate ==
  \/ Lifecycle
  \/ \E c \in ValidatedCollections, i \in Ids : addItem(c, i)
  \/ \E c \in ValidatedCollections, i \in Ids : removeItem(c, i)
  \/ RunValidationClick
  \/ \E r \in validations : ValidationRespond(r)
  \/ \E r \in validations : ValidationFail(r)

SpecValidate == Init /\ [][NextValidate]_vars

\* The ids a caller of the store passes to update and remove: the id of the
\* items the forms add, and an id no item has.
CallIds == Ids \cup {2}

\* What the history records of a direct call of update or remove.
Call(op, c, id) ==
  [target |-> "", op |-> op, collection |-> c, id |-> id,
   had |-> HasId(project[c], id), before |-> project]

\* The operations of the store's context value called directly by a
\* consumer, whatever the rendered controls allow.
StoreUpdate(c, id) ==
  project # NoProject /\ updateItemBy(c, id, Call("update", c, id))

StoreRemove(c, id) ==
  project # NoProject /\ removeItemBy(c, id, Call("remove", c, id))

StoreSetPhase(phase) == project # NoProject /\ setPhase(phase, Click(phase))

\* The store as its consumers see it: the operations of the context value,
\* called with any argument.
NextStore ==
  \/ Lifecycle
  \/ \E c \in Collections, i \in Ids : addItem(c, i)
  \/ \E c \in Collections, i \in CallIds : StoreUpdate(c, i)
  \/ \E c \in Collections, i \in CallIds : StoreRemove(c, i)
  \/ \E phase \in Phases : StoreSetPhase(phase)

SpecStore == Init /\ [][NextStore]_vars

\* The collections and calls of an event handler that calls the store more
\* than once before the next render.
BatchCollections == {"services", "boundedContexts"}

BatchCalls ==
  [op : {"add", "remove"}, collection : BatchCollections, id : CallIds]

\* The updates object a store operation builds: the collection is read from
\* `rendered`, the project of the render whose closure the operation is.
UpdatesOf(call, rendered) ==
  call.collection :>
    (CASE call.op = "add" ->
            Append(rendered[call.collection],
                   NewItem(call.collection, call.id))
       [] call.op = "update" ->
            MapUpdate(rendered[call.collection], call.id,
                      PatchFor(call.collection))
       [] OTHER -> FilterOut(rendered[call.collection], call.id))

\* The updater functions the calls queue, applied in order by React to the
\* pending state: every call of the handler reads the same rendered project.
RECURSIVE ApplyCalls(_, _, _, _)
ApplyCalls(prev, rendered, calls, t) ==
  IF calls = <<>> THEN prev
  ELSE ApplyCalls(updateProjectLocal(prev, UpdatesOf(calls[1], rendered), t),
                  rendered, Tail(calls), t)

\* The forms add items with fresh ids only.
Fresh(calls) ==
  \A k \in 1..Len(calls) :
    calls[k].op = "add" =>
      /\ ~HasId(project[calls[k].collection], calls[k].id)
      /\ \A j \in 1..(k - 1) :
           ~(calls[j].op = "add" /\ calls[j].id = calls[k].id
             /\ calls[j].collection = calls[k].collection)

\* An event handler that makes the calls one after the other; the render
\* follows the last.
StoreBatch(calls) ==
  /\ project # NoProject
  /\ calls # <<>>
  /\ Fresh(calls)
  /\ now < MaxTime
  /\ now' = now + 1
  /\ Render(ApplyCalls(project, project, calls, now + 1), currentPhase, TRUE,
            TRUE)
  /\ h' = HistoryOfRender(
            [h EXCEPT !.mutations = @ + Len(calls),
                      !.click = [target |-> "", op |-> "batch",
                                 calls |-> calls, before |-> project]])
  /\ UNCHANGED <<generated, validationResults, recommendations, isLoading,
                 isSaving, isGeneratingRecommendations, writes, server,
                 recRequests, creating, nextId>>

\* The store called by handlers that make one or two calls per event.
NextBatch ==
  \/ Lifecycle
  \/ \E calls \in SeqUpTo(BatchCalls, 2) : StoreBatch(calls)

SpecBatch == Init /\ [][NextBatch]_vars

\* ------------------------------------------- stored projects, validated
\* The names of the services of a stored project, in stored order.
ServiceNames == <<"X", "Y", "Z">>

\* The dependencies of service k, in stored order, given the edges
\* <<service, dependency name>> in the order they were entered.
DepsOf(edges, k) ==
  LET own == SelectSeq(edges, LAMBDA e : e[1] = k)
  IN [j \in 1..Len(own) |-> own[j][2]]

\* A stored project of the given phase with the given collections, the
\* others as listed.
Stored(phase, fields) ==
  [f \in DOMAIN createEmptyProject(1, "arch", 0) |->
     IF f = "currentPhase" THEN phase
     ELSE IF f \in DOMAIN fields THEN fields[f]
     ELSE createEmptyProject(1, "arch", 0)[f]]

\* Phase A projects: up to three services, the first with or without a
\* bounded context, with every list of dependency edges among them (a
\* dependency may name a service the project does not have), with or without
\* a bounded context defined.
ProjectsA ==
  { Stored("A",
      [services |->
         [k \in 1..n |->
            [id |-> k, name |-> ServiceNames[k],
             boundedContext |-> IF k = 1 THEN bc ELSE "core",
             dependencies |-> DepsOf(edges, k)]],
       boundedContexts |-> ctx]) :
      n \in 0..Len(ServiceNames),
      bc \in {"", "core"},
      ctx \in {<<>>, <<NewItem("boundedContexts", 1)>>},
      edges \in SeqUpTo((1..Len(ServiceNames)) \X
                          {ServiceNames[k] : k \in 1..Len(ServiceNames)},
                        MaxEdges) }

\* Phase B projects: up to three services and every list of container
\* configurations for them or for a service the project does not have.
ProjectsB ==
  { Stored("B",
      [services |->
         [k \in 1..n |->
            [id |-> k, name |-> ServiceNames[k], boundedContext |-> "core",
             dependencies |-> <<>>]],
       containerConfigs |->
         [k \in 1..Len(cfgs) |->
            [id |-> k, serviceId |-> cfgs[k][1], buildType |-> cfgs[k][2],
             healthCheck |-> cfgs[k][3]]]]) :
      n \in 0..Len(ServiceNames),
      cfgs \in SeqUpTo((1..Len(ServiceNames)) \X
                         {"single-stage", "multi-stage"} \X BOOLEAN,
                       MaxConfigs) }

\* Phase C and D projects: each collection their rules read empty or with
\* one item.
ProjectsCD ==
  { Stored(phase,
      [c \in {"k8sManifests", "sloDefinitions", "autoscalingStrategies",
              "resiliencePatterns", "observabilityConfigs"} |->
         IF c \in filled THEN <<NewItem(c, 1)>> ELSE <<>>]) :
      phase \in {"C", "D"},
      filled \in SUBSET {"k8sManifests", "sloDefinitions",
                         "autoscalingStrategies", "resiliencePatterns",
                         "observabilityConfigs"} }

StoredProjects == ProjectsA \cup ProjectsB \cup ProjectsCD

\* The application opens on a database that holds one project.
InitEngine ==
  /\ project = NoProject
  /\ currentPhase = "A"
  /\ validationResults = <<>>
  /\ recommendations = <<>>
  /\ isLoading = FALSE
  /\ isSaving = FALSE
  /\ isValidating = FALSE
  /\ isGeneratingRecommendations = FALSE
  /\ pendingSave = FALSE
  /\ timer = NoTimer
  /\ writes = {}
  /\ \E p \in StoredProjects :
       server = [i \in ProjectIds |-> IF i = p.id THEN p ELSE NoProject]
  /\ validations = {}
  /\ recRequests = 0
  /\ creating = NoCreate
  /\ now = 0
  /\ nextId = 2
  /\ generated = NoText
  /\ h = NoHistory

\* A stored project is loaded and validated.
NextEngine ==
  \/ \E id \in ProjectIds : LoadProject(id)
  \/ RunValidationClick
  \/ \E r \in validations : ValidationRespond(r)
  \/ \E r \in validations : ValidationFail(r)

SpecEngine == InitEngine /\ [][NextEngine]_vars

\* ------------------------------------------------------------ generators
\* Generated text is a sequence of lines, a line a sequence of the pieces the
\* template literal concatenates: its fixed words and the interpolated
\* values. Numbers are written as their decimal text, indentation and blank
\* lines are left out. An optional field is a record with `present`.
Absent == [present |-> FALSE]

\* String.prototype.replace(a, b) on a string cut into pieces, a and b being
\* pieces: the first occurrence of a is replaced.
Replace(str, a, b) ==
  IF \E i \in 1..Len(str) : str[i] = a
  THEN LET i == CHOOSE i \in 1..Len(str) :
                  str[i] = a /\ \A j \in 1..(i - 1) : str[j] # a
       IN [str EXCEPT ![i] = b]
  ELSE str

\* String.prototype.toLowerCase on the service names used.
toLowerCase(name) ==
  CASE name = "Orders" -> "orders" [] OTHER -> name

\* An environment line that writes every variable, secret or not.
EnvLineLeaky(env) == <<"ENV ", env.key, "=\"", env.value, "\"">>

\* The line of one environment variable.
EnvLine(env) ==
  IF env.isSecret
  THEN <<"# ", env.key, " - Set via secrets management">>
  ELSE <<"ENV ", env.key, "=\"", env.value, "\"">>

\* The image of stage 2 of a multi-stage build.
StageTwoImage(baseImage) ==
  Replace(Replace(baseImage, "-alpine", "-slim"), "-slim", "-alpine")

\* generateDockerfile(config, serviceName) of the container workspace and
\* POST /api/generate/dockerfile: the same template.
generateDockerfile(config, serviceName) ==
  LET baseImage == IF config.baseImage = <<>>
                   THEN <<"node:20", "-alpine">> ELSE config.baseImage
      env == [k \in 1..Len(config.environmentVariables) |->
                EnvLine(config.environmentVariables[k])]
      ports == [k \in 1..Len(config.exposedPorts) |->
                  <<"EXPOSE ", config.exposedPorts[k]>>]
      health ==
        IF config.healthCheck.present
        THEN << <<"HEALTHCHECK --interval=",
                  config.healthCheck.intervalSeconds, "s \\">>,
                <<"CMD wget --quiet --tries=1 --spider http://localhost:",
                  config.healthCheck.port, config.healthCheck.path,
                  " || exit 1">> >>
        ELSE <<>>
  IN IF config.buildType = "multi-stage"
     THEN << <<"# Multi-stage build for ", serviceName>>,
             <<"# Stage 1: Build">>,
             <<"FROM ">> \o baseImage \o <<" AS builder">>,
             <<"WORKDIR ", "/app">>,
             <<"COPY ", "package*.json", " ./">>,
             <<"RUN ", "npm", " ci --only=production">>,
             <<"COPY ", ". .">>,
             <<"RUN ", "npm", " run build">>,
             <<"# Stage 2: Production">>,
             <<"FROM ">> \o StageTwoImage(baseImage),
             <<"WORKDIR ", "/app">>,
             <<"COPY ", "--from=builder ", "/app", "/dist ./dist">>,
             <<"COPY ", "--from=builder ", "/app",
               "/node_modules ./node_modules">>,
             <<"COPY ", "package*.json", " ./">> >>
          \o env \o ports \o health \o
          << <<"USER ", "node">>,
             <<"CMD ", "[\"", "node", "\", \"", "dist/index.js", "\"]">> >>
     ELSE << <<"# Single-stage build for ", serviceName>>,
             <<"FROM ">> \o baseImage,
             <<"WORKDIR ", "/app">>,
             <<"COPY ", "package*.json", " ./">>,
             <<"RUN ", "npm", " ci --only=production">>,
             <<"COPY ", ". .">> >>
          \o env \o ports \o health \o
          << <<"USER ", "node">>,
             <<"CMD ", "[\"", "node", "\", \"", "index.js", "\"]">> >>

\* Object.entries({ ...labels, app: value }): an existing key keeps its
\* place, a new key comes last.
WithApp(labels, value) ==
  IF \E k \in 1..Len(labels) : labels[k][1] = "app"
  THEN [k \in 1..Len(labels) |->
          IF labels[k][1] = "app" THEN <<"app", value>> ELSE labels[k]]
  ELSE Append(labels, <<"app", value>>)

EntryLines(entries) ==
  [k \in 1..Len(entries) |-> <<entries[k][1], ": \"", entries[k][2], "\"">>]

\* The probes of the workload document.
ProbeLines(containerConfig) ==
  IF containerConfig.present /\ containerConfig.healthCheck.present
  THEN << <<"livenessProbe:">>,
          <<"httpGet:">>,
          <<"path: ", containerConfig.healthCheck.path>>,
          <<"port: ", containerConfig.healthCheck.port>>,
          <<"initialDelaySeconds: ", "15">>,
          <<"periodSeconds: ", containerConfig.healthCheck.intervalSeconds>>,
          <<"readinessProbe:">>,
          <<"httpGet:">>,
          <<"path: ", containerConfig.healthCheck.path>>,
          <<"port: ", containerConfig.healthCheck.port>>,
          <<"initialDelaySeconds: ", "5">>,
          <<"periodSeconds: ", "10">> >>
  ELSE <<>>

\* containerConfig?.exposedPorts?.[0] || 3000
FirstPort(containerConfig) ==
  IF containerConfig.present /\ containerConfig.exposedPorts # <<>>
  THEN containerConfig.exposedPorts[1] ELSE "3000"

\* containerConfig?.resourceLimits?.<field> || <default>
Limit(containerConfig, field, default) ==
  IF containerConfig.present /\ containerConfig.resourceLimits.present
  THEN containerConfig.resourceLimits[field] ELSE default

\* The two documents from `spec:` on, which both templates share, given the
\* values they interpolate.
WorkloadLines(name, namespace, replicas, strategy, containerConfig) ==
  << <<"spec:">>,
     <<"replicas: ", replicas>>,
     <<"selector:">>,
     <<"matchLabels:">>,
     <<"app: ", name>>,
     <<"strategy:">>,
     <<"type: ", strategy>> >>
  \o (IF strategy = "RollingUpdate"
      THEN << <<"rollingUpdate:">>, <<"maxSurge: 25%">>,
              <<"maxUnavailable: 25%">> >>
      ELSE <<>>)
  \o << <<"template:">>,
        <<"metadata:">>,
        <<"labels:">>,
        <<"app: ", name>>,
        <<"spec:">>,
        <<"containers:">>,
        <<"- name: ", name>>,
        <<"image: ", name, ":latest">>,
        <<"ports:">>,
        <<"- containerPort: ", FirstPort(containerConfig)>>,
        <<"resources:">>,
        <<"requests:">>,
        <<"cpu: ", Limit(containerConfig, "cpuRequest", "100m")>>,
        <<"memory: ", Limit(containerConfig, "memoryRequest", "128Mi")>>,
        <<"limits:">>,
        <<"cpu: ", Limit(containerConfig, "cpuLimit", "500m")>>,
        <<"memory: ", Limit(containerConfig, "memoryLimit", "512Mi")>> >>
  \o ProbeLines(containerConfig)
  \o << <<"---">>,
        <<"apiVersion: ", "v1">>,
        <<"kind: ", "Service">>,
        <<"metadata:">>,
        <<"name: ", name, "-svc">>,
        <<"namespace: ", namespace>>,
        <<"spec:">>,
        <<"selector:">>,
        <<"app: ", name>>,
        <<"ports:">>,
        <<"- port: 80">>,
        <<"targetPort: ", FirstPort(containerConfig)>>,
        <<"type: ClusterIP">> >>

\* POST /api/generate/k8s-manifest. The strategy line compares
\* manifest.deploymentStrategy itself with RollingUpdate, not the defaulted
\* value; the two differ for an empty strategy only, which the schema's enum
\* excludes.
K8sManifestRoute(manifest, serviceName, containerConfig) ==
  LET name == toLowerCase(serviceName)
      namespace == IF manifest.namespace = "" THEN "default"
                   ELSE manifest.namespace
      replicas == IF manifest.replicas = "0" THEN "3" ELSE manifest.replicas
  IN << <<"apiVersion: ", "apps/v1">>,
        <<"kind: ", "Deployment">>,
        <<"metadata:">>,
        <<"name: ", name>>,
        <<"namespace: ", namespace>>,
        <<"labels:">> >>
     \o EntryLines(WithApp(manifest.labels, name))
     \o WorkloadLines(name, namespace, replicas, manifest.deploymentStrategy,
                      containerConfig)

\* generateK8sManifest(manifest, serviceName, containerConfig) of the
\* orchestration workspace.
generateK8sManifest(manifest, serviceName, containerConfig) ==
  LET name == toLowerCase(serviceName)
  IN << <<"apiVersion: ", "apps/v1">>,
        <<"kind: ", "Deployment">>,
        <<"metadata:">>,
        <<"name: ", name>>,
        <<"namespace: ", manifest.namespace>>,
        <<"labels:">> >>
     \o EntryLines(WithApp(manifest.labels, name))
     \o (IF manifest.annotations.present
         THEN << <<"annotations:">> >>
              \o EntryLines(manifest.annotations.entries)
         ELSE <<>>)
     \o WorkloadLines(name, manifest.namespace, manifest.replicas,
                      manifest.deploymentStrategy, containerConfig)

\* The arguments the generators are called with.
GenNames == {"Orders", "node"}

EnvVars ==
  [key : {"API_KEY", "MODE"}, value : {"", "hunter2", "node"},
   isSecret : BOOLEAN]

HealthChecks ==
  {Absent} \cup
  [present : {TRUE}, path : {"/health"}, port : {"8080"},
   intervalSeconds : {"10", "30"}]

ResourceLimits ==
  {Absent,
   [present |-> TRUE, cpuLimit |-> "1", memoryLimit |-> "1Gi",
    cpuRequest |-> "250m", memoryRequest |-> "256Mi"]}

BaseImages ==
  {<<>>, <<"node:20", "-alpine">>, <<"python:3.11", "-slim">>,
   <<"ubuntu:22.04">>}

GenConfigs ==
  [present : {TRUE},
   baseImage : BaseImages,
   buildType : {"single-stage", "multi-stage"},
   exposedPorts : {<<>>, <<"8080">>},
   environmentVariables : SeqUpTo(EnvVars, MaxEnv),
   healthCheck : HealthChecks,
   resourceLimits : {Absent}]

\* The container configuration handed to the manifest generators: none, or
\* one without environment.
ManifestConfigs ==
  {Absent} \cup
  [present : {TRUE},
   baseImage : {<<>>},
   buildType : {"single-stage"},
   exposedPorts : {<<>>, <<"8080">>},
   environmentVariables : {<<>>},
   healthCheck : HealthChecks,
   resourceLimits : ResourceLimits]

GenManifests ==
  [namespace : {"", "prod"},
   replicas : {"0", "2"},
   deploymentStrategy : {"RollingUpdate", "Recreate"},
   labels : {<<>>, << <<"tier", "web">> >>,
             << <<"app", "custom">>, <<"tier", "web">> >>},
   annotations : {Absent, [present |-> TRUE, entries |-> <<>>],
                  [present |-> TRUE,
                   entries |-> << <<"owner", "team">> >>]}]

\* The Dockerfile preview of a container card, or the generate route.
GenerateDockerfile(config, serviceName) ==
  /\ generated = NoText
  /\ generated' = [kind |-> "dockerfile", config |-> config,
                   serviceName |-> serviceName,
                   text |-> generateDockerfile(config, serviceName)]
  /\ UNCHANGED <<project, currentPhase, validationResults, recommendations,
                 isLoading, isSaving, isValidating,
                 isGeneratingRecommendations, pendingSave, timer, writes,
                 server, validations, recRequests, creating, now, nextId, h>>

\* POST /api/generate/k8s-manifest answers.
GenerateK8sRoute(manifest, serviceName, containerConfig) ==
  /\ generated = NoText
  /\ generated' = [kind |-> "k8s-route", manifest |-> manifest,
                   serviceName |-> serviceName, config |-> containerConfig,
                   text |-> K8sManifestRoute(manifest, serviceName,
                                             containerConfig)]
  /\ UNCHANGED <<project, currentPhase, validationResults, recommendations,
                 isLoading, isSaving, isValidating,
                 isGeneratingRecommendations, pendingSave, timer, writes,
                 server, validations, recRequests, creating, now, nextId, h>>

\* The YAML preview of a manifest card.
GenerateK8sPreview(manifest, serviceName, containerConfig) ==
  /\ generated = NoText
  /\ generated' = [kind |-> "k8s-preview", manifest |-> manifest,
                   serviceName |-> serviceName, config |-> containerConfig,
                   text |-> generateK8sManifest(manifest, serviceName,
                                                containerConfig)]
  /\ UNCHANGED <<project, currentPhase, validationResults, recommendations,
                 isLoading, isSaving, isValidating,
                 isGeneratingRecommendations, pendingSave, timer, writes,
                 server, validations, recRequests, creating, now, nextId, h>>

\* The generators are functions of their arguments alone, so a behaviour
\* makes one call.
NextGenerate ==
  \/ /\ generated = NoText
     /\ \E config \in GenConfigs, name \in GenNames :
          GenerateDockerfile(config, name)
  \/ /\ generated = NoText
     /\ \E manifest \in GenManifests, name \in GenNames,
           config \in ManifestConfigs :
          GenerateK8sRoute(manifest, name, config)
  \/ /\ generated = NoText
     /\ \E manifest \in GenManifests, name \in GenNames,
           config \in ManifestConfigs :
          GenerateK8sPreview(manifest, name, config)

SpecGenerate == Init /\ [][NextGenerate]_vars

\* ------------------------------------------------- the phase of the store
\* The stored rows loadProject is called with: one of each phase, with a
\* service or without.
PhaseRows ==
  { Stored(phase, [services |-> svcs]) :
      phase \in Phases, svcs \in {<<>>, <<NewItem("services", 1)>>} }

\* The application opens on a database that holds one of them.
InitPhase ==
  /\ project = NoProject
  /\ currentPhase = "A"
  /\ validationResults = <<>>
  /\ recommendations = <<>>
  /\ isLoading = FALSE
  /\ isSaving = FALSE
  /\ isValidating = FALSE
  /\ isGeneratingRecommendations = FALSE
  /\ pendingSave = FALSE
  /\ timer = NoTimer
  /\ writes = {}
  /\ \E p \in PhaseRows :
       server = [i \in ProjectIds |-> IF i = p.id THEN p ELSE NoProject]
  /\ validations = {}
  /\ recRequests = 0
  /\ creating = NoCreate
  /\ now = 0
  /\ nextId = 2
  /\ generated = NoText
  /\ h = NoHistory

\* The store as its consumers call it: the lifecycle, loadProject with a
\* stored row, setPhase and the mutations of a gating collection.
NextPhase ==
  \/ Lifecycle
  \/ \E id \in ProjectIds : LoadProject(id)
  \/ \E phase \in Phases : StoreSetPhase(phase)
  \/ \E c \in ValidatedCollections, i \in Ids : addItem(c, i)
  \/ \E c \in ValidatedCollections, i \in Ids : removeItem(c, i)

SpecPhase == InitPhase /\ [][NextPhase]_vars

\* ------------------------------------------------------ requests answered
\* The store with its two advisory requests and their answers, which may
\* arrive after the project they were sent for was closed.
NextAnswers ==
  \/ Lifecycle
  \/ RunValidationClick
  \/ \E r \in validations : ValidationRespond(r)
  \/ \E r \in validations : ValidationFail(r)
  \/ FetchRecommendationsClick
  \/ \E recs \in RecommendationLists : RecommendationsRespond(recs)
  \/ RecommendationsFail

SpecAnswers == Init /\ [][NextAnswers]_vars

\* ------------------------------------------------- persistence endpoints
\* insertProjectSchema.safeParse(body).success: name is a string of at least
\* one character (description is optional).
insertProjectSchema(body) == "name" \in DOMAIN body /\ body.name # ""

\* serviceSchema.safeParse(item).success for the items used.
serviceSchema(item) ==
  {"id", "name", "boundedContext", "dependencies"} \subseteq DOMAIN item

\* architectureProjectSchema.partial() applied to a patch body: currentPhase
\* is one of A..D and services is an array of services.
architectureProjectSchema(body) ==
  /\ "currentPhase" \in DOMAIN body => body.currentPhase \in Phases
  /\ "services" \in DOMAIN body =>
       \A k \in 1..Len(body.services) : serviceSchema(body.services[k])

\* A record with the fields of `fields` that are present.
Body(fields) ==
  [f \in {g \in DOMAIN fields : fields[g].present} |-> fields[f].value]

Given(S) == {Absent} \cup [present : {TRUE}, value : S]

\* The bodies a caller posts to /api/projects.
PostBodies ==
  {Body([name |-> n, description |-> d]) :
     n \in Given({"", "arch"}), d \in Given({"d"})}

\* The bodies a caller sends to PATCH /api/projects/:id: a phase token, and
\* for services an empty array, an array of one service or an array of one
\* item that is no service.
PatchBodies ==
  {Body([currentPhase |-> ph, services |-> s]) :
     ph \in Given(PhaseTokens),
     s \in Given({<<>>, <<NewItem("services", 1)>>, <<[bogus |-> 1]>>})}

\* DatabaseStorage.createProject(insertProject) at the server's clock.
createProjectRow(id, insertProject, t) ==
  [createEmptyProject(id, insertProject.name, t) EXCEPT
     !.description = IF "description" \in DOMAIN insertProject
                     THEN insertProject.description ELSE ""]

\* The handler of PATCH /api/projects/:id: storage.updateProject(id, body),
\* 404 when there is no such row.
PatchRow(id, body) ==
  IF server[id] = NoProject
  THEN /\ UNCHANGED server
       /\ h' = [h EXCEPT !.answer = Answer("PATCH", id, body, 404)]
  ELSE /\ server' = [server EXCEPT ![id] = updateProjectRow(@, body, now)]
       /\ h' = [h EXCEPT !.answer = Answer("PATCH", id, body, 200)]

\* POST /api/projects with any body: 400 when the body does not parse, else
\* the new row and 201.
ApiCreateProject(body) ==
  /\ IF ~insertProjectSchema(body)
     THEN /\ UNCHANGED <<server, nextId>>
          /\ h' = [h EXCEPT !.answer = Answer("POST", 0, body, 400)]
     ELSE /\ nextId \in ProjectIds
          /\ server' = [server EXCEPT ![nextId] =
                          createProjectRow(nextId, body, now)]
          /\ nextId' = nextId + 1
          /\ h' = [h EXCEPT !.answer = Answer("POST", nextId, body, 201)]
  /\ UNCHANGED <<project, currentPhase, validationResults, recommendations,
                 isLoading, isSaving, isValidating,
                 isGeneratingRecommendations, pendingSave, timer, writes,
                 validations, recRequests, creating, now, generated>>

\* PATCH /api/projects/:id with any body.
ApiPatchProject(id, body) ==
  /\ PatchRow(id, body)
  /\ UNCHANGED <<project, currentPhase, validationResults, recommendations,
                 isLoading, isSaving, isValidating,
                 isGeneratingRecommendations, pendingSave, timer, writes,
                 validations, recRequests, creating, now, nextId, generated>>

\* The persistence endpoints as any caller of the HTTP interface sees them.
NextApi ==
  \/ \E body \in PostBodies : ApiCreateProject(body)
  \/ \E id \in ProjectIds, body \in PatchBodies : ApiPatchProject(id, body)

SpecApi == Init /\ [][NextApi]_vars

\* -------------------------------------------------------- validation panel
\* The statuses ValidationItem's statusConfig table has an entry for.
statusConfig == {"passed", "warning", "failed"}

\* ValidationItem({ result }): statusConfig[result.status].icon is read, which
\* throws when the table has no entry for the status.
ValidationItemRenders(result) == result.status \in statusConfig

\* The results the panel lists, and its three counters.
phaseResults == SelectSeq(validationResults, LAMBDA r : r.phase = currentPhase)

passedCount == Len(SelectSeq(phaseResults, LAMBDA r : r.status = "passed"))

warningCount == Len(SelectSeq(phaseResults, LAMBDA r : r.status = "warning"))

failedCount == Len(SelectSeq(phaseResults, LAMBDA r : r.status = "failed"))

\* ------------------------------------------------------------------ claims
\* A project's fields other than its timestamps.
Content(p) == [f \in DOMAIN p \ {"createdAt", "updatedAt"} |-> p[f]]

\* C1: for an active project canAdvanceToPhase is true for A, true for B iff
\* services is non-empty, for C iff containerConfigs is non-empty, for D iff
\* k8sManifests is non-empty, and false for any other token, whatever the
\* current phase and the other collections are.
C1_GateTable ==
  project # NoProject =>
    \A phase \in PhaseTokens :
      canAdvanceToPhase(project, phase) =
        ( \/ phase = "A"
          \/ phase = "B" /\ project.services # <<>>
          \/ phase = "C" /\ project.containerConfigs # <<>>
          \/ phase = "D" /\ project.k8sManifests # <<>> )

\* A project in phase D whose gate to B is closed and whose gate to D is open,
\* with a non-gating collection filled.
C1_Witness ==
  /\ project # NoProject
  /\ currentPhase = "D"
  /\ project.services = <<>>
  /\ project.k8sManifests # <<>>
  /\ project.boundedContexts # <<>>

\* C2: a click on the navigation control of phase T (sidebar, stepper,
\* Continue, Back) makes T the current phase iff T is not later than the
\* current phase or the gate of T is open at the click; otherwise project and
\* current phase stay as they were.
C2_PhaseClick ==
  h.click # NoClick =>
    LET T == h.click.target
        allowed == \/ \E i, j \in 1..4 :
                        /\ phaseOrder[i] = T
                        /\ phaseOrder[j] = h.click.from
                        /\ i <= j
                   \/ h.click.gate
    IN IF allowed
       THEN currentPhase = T /\ project.currentPhase = T
       ELSE /\ currentPhase = h.click.from
            /\ currentPhase # T
            /\ project = h.click.before

\* A backward click from phase C to phase B has been handled while services is
\* empty, so while the gate of B is closed.
C2_Witness ==
  /\ h.click # NoClick
  /\ h.click.target = "B"
  /\ h.click.from = "C"
  /\ ~h.click.gate
  /\ currentPhase = "B"

\* C2, the refused side: a forward click on a phase whose gate is closed has
\* been handled.
C2_WitnessRefused ==
  /\ h.click # NoClick
  /\ h.click.target = "C"
  /\ h.click.from = "A"
  /\ ~h.click.gate
  /\ currentPhase = "A"

\* C3: once a mutation is followed by no further mutation and the project
\* stays open, a write carrying the final snapshot is issued. A state with a
\* mutated project, no armed timer and the current snapshot never sent is one
\* from which, without a further mutation, no write of it is ever issued.
C3_FinalSnapshotIssued ==
  (project # NoProject /\ h.mutations > 0 /\ ~h.writeFailed /\ timer = NoTimer)
    => project \in h.issued

\* C4: a burst of mutations, each arriving before the timer armed by the one
\* before it has fired, ends in exactly one write, issued after the last
\* mutation and carrying its snapshot: while the project stays as it is, an
\* armed timer stays armed until it fires, and firing sends one write with the
\* current project.
C4_DebounceCollapse ==
  [][(timer # NoTimer /\ project' = project /\ timer' # timer)
       => /\ timer = project
          /\ Write(project, "auto") \notin writes
          /\ writes' = writes \cup {Write(project, "auto")}]_vars

\* C5: when writes of the project were in flight at once, all have completed
\* successfully and nothing was mutated since the last was issued, the stored
\* row equals the local project.
C5_LastWriteWins ==
  ( /\ project # NoProject
    /\ h.overlap
    /\ ~h.writeFailed
    /\ writes = {}
    /\ timer = NoTimer
    /\ project \in h.issued )
    => Content(server[project.id]) = Content(project)

\* C6: a failed auto-save write leaves the project as it was, ends with the
\* saving flag false and sends nothing; and no auto-save write is ever issued
\* for a snapshot whose write has failed.
C6_NoRollbackNoRetry ==
  [][ /\ \A w \in writes :
           (WriteError(w) /\ w.kind = "auto") =>
             /\ project' = project
             /\ currentPhase' = currentPhase
             /\ isSaving' = FALSE
             /\ writes' = writes \ {w}
      /\ \A w \in writes' \ writes : w.snap \notin h.failed ]_vars

\* The write of the current snapshot has failed: the project is still that
\* snapshot, nothing is scheduled and nothing is in flight.
C6_Witness ==
  /\ project # NoProject
  /\ project \in h.failed
  /\ ~isSaving
  /\ timer = NoTimer
  /\ writes = {}

\* C7: every mutation of the active project (add, update, remove on any
\* collection, setPhase) sends a validation request for the current phase.
C7_EveryMutationValidates ==
  [][(h'.mutations = h.mutations + 1)
       => /\ validations' # validations
          /\ h'.lastReq.project = project'
          /\ h'.lastReq.phase = currentPhase']_vars

\* C8: when a validation request was issued while another was outstanding,
\* once every answer has arrived validationResults is the answer to the
\* request issued last.
C8_LaterRequestWins ==
  (project # NoProject /\ h.valOverlap /\ h.lastOk /\ validations = {})
    => validationResults = Validate(h.lastReq.project, h.lastReq.phase)

\* C9: isValidating is true in every state with a validation request
\* outstanding.
C9_FlagCoversOutstanding ==
  (project # NoProject /\ validations # {}) => isValidating

\* C10: with the gating collection of a phase empty the gate is closed; adding
\* an item opens it; removing that item closes it again (services and B,
\* containerConfigs and C, k8sManifests and D).
GateOf(c) ==
  CASE c = "services" -> "B" [] c = "containerConfigs" -> "C"
    [] c = "k8sManifests" -> "D"

C10_GateMonotonicity ==
  [][\A c \in {"services", "containerConfigs", "k8sManifests"}, i \in Ids :
       /\ (addItem(c, i) /\ project[c] = <<>>) =>
            /\ ~canAdvanceToPhase(project, GateOf(c))
            /\ canAdvanceToPhase(project', GateOf(c))
       /\ (removeItem(c, i) /\ Len(project[c]) = 1 /\ project[c][1].id = i) =>
            /\ canAdvanceToPhase(project, GateOf(c))
            /\ ~canAdvanceToPhase(project', GateOf(c))]_vars

\* A service was added (the request sent then is outstanding) and removed
\* again: the gate of B is closed.
C10_Witness ==
  /\ project # NoProject
  /\ project.services = <<>>
  /\ \E r \in validations :
       r.project.id = project.id /\ Len(r.project.services) = 1
  /\ ~canAdvanceToPhase(project, "B")

\* C11: setPhase(target) makes target the store's phase and the project's
\* currentPhase for every target in A..D whether the gate of target is open
\* or closed, and is a mutation: nothing else of the project changes,
\* updatedAt is the instant of the call and a debounced write of the new
\* snapshot is scheduled.
C11_SetPhaseUnconditional ==
  (h.click # NoClick /\ h.click.target # "") =>
    /\ currentPhase = h.click.target
    /\ project = [h.click.before EXCEPT !.currentPhase = h.click.target,
                                        !.updatedAt = now]
    /\ project.updatedAt > h.click.before.updatedAt
    /\ pendingSave
    /\ timer = project

\* setPhase("D") was called in phase A with the gate of D closed, and D is
\* the current phase.
C11_Witness ==
  /\ h.click # NoClick
  /\ h.click.target = "D"
  /\ h.click.from = "A"
  /\ ~h.click.gate
  /\ currentPhase = "D"
  /\ project.currentPhase = "D"

\* C12: for each of the eight collections, remove(id) and update(id, patch)
\* with an id no item of the collection has leave the project as it was apart
\* from updatedAt, and the call completes.
C12_AbsentIdNoOp ==
  (h.click # NoClick /\ h.click.target = "" /\ ~h.click.had) =>
    /\ h.click.op \in {"update", "remove"}
    /\ h.click.collection \in Collections
    /\ Content(project) = Content(h.click.before)
    /\ project.updatedAt = now

\* update was called with an id that no item of a one-item collection has.
C12_Witness ==
  /\ h.click # NoClick
  /\ h.click.target = ""
  /\ h.click.op = "update"
  /\ ~h.click.had
  /\ Len(h.click.before[h.click.collection]) = 1
  /\ Len(project[h.click.collection]) = 1

\* C12, the remove side: remove was called with an id that no item of a
\* one-item collection has.
C12_WitnessRemove ==
  /\ h.click # NoClick
  /\ h.click.target = ""
  /\ h.click.op = "remove"
  /\ ~h.click.had
  /\ Len(h.click.before[h.click.collection]) = 1
  /\ Len(project[h.click.collection]) = 1

\* The validation answer held by the store is the answer to the request
\* sent last, for the loaded project and its phase.
Answered == project # NoProject /\ h.lastOk

\* The positions of the results of a category.
InCategory(R, c) == {k \in 1..Len(R) : R[k].category = c}

\* C13: phase A validation emits first exactly one Services result (failed
\* if services is empty, otherwise passed with the count), then exactly one
\* Bounded Contexts result (warning if boundedContexts is empty, otherwise
\* passed with the count), then one Service Assignment warning iff some
\* service has an empty bounded context; for an empty project the list is
\* exactly failed, warning, with no error entry.
C13_PhaseAOrder ==
  (Answered /\ currentPhase = "A") =>
    LET R == validationResults
        p == project
        orphan == \E k \in 1..Len(p.services) :
                    p.services[k].boundedContext = ""
    IN /\ Len(R) >= 2
       /\ InCategory(R, "Services") = {1}
       /\ R[1].status = (IF p.services = <<>> THEN "failed" ELSE "passed")
       /\ R[1].n = Len(p.services)
       /\ InCategory(R, "Bounded Contexts") = {2}
       /\ R[2].status =
            (IF p.boundedContexts = <<>> THEN "warning" ELSE "passed")
       /\ R[2].n = Len(p.boundedContexts)
       /\ InCategory(R, "Service Assignment") = (IF orphan THEN {3} ELSE {})
       /\ orphan => R[3].status = "warning"
       /\ (p.services = <<>> /\ p.boundedContexts = <<>>) =>
            [k \in 1..Len(R) |-> R[k].status] = <<"failed", "warning">>

\* The answer for a project whose first service has no bounded context and
\* whose dependencies are circular: the three leading results and an error
\* after them.
C13_Witness ==
  /\ Answered
  /\ currentPhase = "A"
  /\ Len(project.services) = 2
  /\ project.services[1].boundedContext = ""
  /\ Len(validationResults) = 4
  /\ validationResults[3].category = "Service Assignment"
  /\ validationResults[4].status = "error"

\* C13, the empty project: the answer is failed, warning.
C13_WitnessEmpty ==
  /\ Answered
  /\ currentPhase = "A"
  /\ project.services = <<>>
  /\ project.boundedContexts = <<>>
  /\ Len(validationResults) = 2

\* The positions of the services no container configuration names.
Unconfigured(p) ==
  {k \in 1..Len(p.services) :
     \A j \in 1..Len(p.containerConfigs) :
       p.containerConfigs[j].serviceId # p.services[k].id}

\* C14: phase B validation emits at most one Configuration result: failed
\* iff some service lacks a configuration and all do, warning iff some but
\* not all do, passed iff none does and a configuration exists; a failed or
\* warning result names every unconfigured service; for one service and no
\* configuration the list holds exactly one failed result.
C14_PhaseBConfiguration ==
  (Answered /\ currentPhase = "B") =>
    LET R == validationResults
        p == project
        conf == InCategory(R, "Configuration")
        lacking == Unconfigured(p)
        has(status) == \E k \in conf : R[k].status = status
    IN /\ Cardinality(conf) <= 1
       /\ has("failed") <=>
            (lacking # {} /\ Cardinality(lacking) = Len(p.services))
       /\ has("warning") <=>
            (lacking # {} /\ Cardinality(lacking) < Len(p.services))
       /\ has("passed") <=> (lacking = {} /\ p.containerConfigs # <<>>)
       /\ \A k \in conf :
            R[k].status \in {"failed", "warning"} =>
              /\ {R[k].names[j] : j \in 1..Len(R[k].names)} =
                   {p.services[i].name : i \in lacking}
              /\ Len(R[k].names) = Cardinality(lacking)
       /\ (Len(p.services) = 1 /\ p.containerConfigs = <<>>) =>
            /\ Cardinality({k \in 1..Len(R) : R[k].status = "failed"}) = 1
            /\ Len(R) = 1

\* The answer for two services of which one has a configuration: a warning
\* naming the other.
C14_Witness ==
  /\ Answered
  /\ currentPhase = "B"
  /\ Len(project.services) = 2
  /\ Cardinality(Unconfigured(project)) = 1
  /\ validationResults[1].category = "Configuration"
  /\ validationResults[1].status = "warning"

\* C14, the scenario: one service, no configuration, one failed result.
C14_WitnessFailed ==
  /\ Answered
  /\ currentPhase = "B"
  /\ Len(project.services) = 1
  /\ project.containerConfigs = <<>>
  /\ Len(validationResults) = 1
  /\ validationResults[1].status = "failed"

\* The dependency edges of the services in iteration order: <<s, d>> is the
\* d-th dependency of the s-th service.
EdgePositions(services) ==
  {<<s, d>> : s \in 1..Len(services), d \in 1..MaxEdges} \cap
  {e \in (1..Len(services)) \X (1..MaxEdges) :
     e[2] <= Len(services[e[1]].dependencies)}

EdgeAt(services, e) ==
  <<services[e[1]].name, services[e[1]].dependencies[e[2]]>>

Earlier(e, f) == e[1] < f[1] \/ (e[1] = f[1] /\ e[2] < f[2])

\* The edges whose reverse edge comes earlier in the iteration.
ReversedEdges(services) ==
  {f \in EdgePositions(services) :
     \E e \in EdgePositions(services) :
       /\ Earlier(e, f)
       /\ EdgeAt(services, e) =
            <<EdgeAt(services, f)[2], EdgeAt(services, f)[1]>>}

\* C15: iterating services and their dependencies in stored order, phase A
\* validation emits one error result for exactly the edges whose reverse
\* edge was recorded earlier, naming service and dependency in encounter
\* order; so for X depending on Y and Y on X there is an error naming both.
C15_ReverseEdgeErrors ==
  (Answered /\ currentPhase = "A") =>
    LET services == project.services
        errors == SelectSeq(validationResults, LAMBDA r : r.status = "error")
        rev == ReversedEdges(services)
        rank(f) == Cardinality({e \in rev : Earlier(e, f)}) + 1
    IN /\ Len(errors) = Cardinality(rev)
       /\ \A f \in rev : errors[rank(f)].pair = EdgeAt(services, f)
       /\ \A k \in 1..Len(errors) : errors[k].category = "Dependencies"
       /\ \A e, f \in EdgePositions(services) :
            ( /\ EdgeAt(services, e)[1] # EdgeAt(services, e)[2]
              /\ EdgeAt(services, f) =
                   <<EdgeAt(services, e)[2], EdgeAt(services, e)[1]>> )
            => \E k \in 1..Len(errors) :
                 {errors[k].pair[1], errors[k].pair[2]} =
                   {EdgeAt(services, e)[1], EdgeAt(services, e)[2]}

\* The answer for X depending on Y and Y depending on X twice: two errors,
\* both naming Y then X.
C15_Witness ==
  /\ Answered
  /\ currentPhase = "A"
  /\ Len(project.services) = 2
  /\ project.services[1].dependencies = <<"Y">>
  /\ project.services[2].dependencies = <<"X", "X">>
  /\ Cardinality({k \in 1..Len(validationResults) :
                    validationResults[k].status = "error"}) = 2

\* The dependency graph over service names has a cycle: some service reaches
\* itself along dependency edges.
DependsOn(services, a, b) ==
  \E k \in 1..Len(services) :
    /\ services[k].name = a
    /\ \E d \in 1..Len(services[k].dependencies) :
         services[k].dependencies[d] = b

HasCycle(services) ==
  LET N == {ServiceNames[k] : k \in 1..Len(ServiceNames)}
      step(a, b) == DependsOn(services, a, b)
  IN \E a \in N :
       \/ step(a, a)
       \/ \E b \in N : step(a, b) /\ step(b, a)
       \/ \E b, c \in N : step(a, b) /\ step(b, c) /\ step(c, a)

\* C16: whenever the dependency graph of the services has a cycle of any
\* length, the phase A answer holds at least one circular-dependency error.
C16_AnyCycleDetected ==
  (Answered /\ currentPhase = "A" /\ HasCycle(project.services)) =>
    \E k \in 1..Len(validationResults) :
      validationResults[k].status = "error"

\* C17: every result the validation engine returns, for every project and
\* phase, has status passed, warning or failed.
C17_StatusInSchema ==
  Answered =>
    \A k \in 1..Len(validationResults) :
      validationResults[k].status \in {"passed", "warning", "failed"}

\* The text contains the value: some piece of some line is the value.
Contains(text, value) ==
  \E l \in 1..Len(text) : \E k \in 1..Len(text[l]) : text[l][k] = value

\* The configuration with the value of every secret variable blanked.
Redacted(config) ==
  [config EXCEPT !.environmentVariables =
     [k \in 1..Len(config.environmentVariables) |->
        IF config.environmentVariables[k].isSecret
        THEN [config.environmentVariables[k] EXCEPT !.value = ""]
        ELSE config.environmentVariables[k]]]

\* C18 as stated: for every configuration, service name and secret variable
\* with a non-empty value, the generated Dockerfile does not contain the
\* value anywhere.
C18_SecretValueNowhere ==
  generated.kind = "dockerfile" =>
    \A k \in 1..Len(generated.config.environmentVariables) :
      LET env == generated.config.environmentVariables[k]
      IN (env.isSecret /\ env.value # "") =>
           ~Contains(generated.text, env.value)

\* C18 as the generator has it: the Dockerfile does not depend on the values
\* of secret variables. It is the Dockerfile of the configuration with every
\* secret value blanked, and the line of a secret variable is the comment
\* naming its key; a secret value occurs in the text only where the service
\* name, a non-secret value or the template itself puts the same text.
C18_SecretValueUnread ==
  generated.kind = "dockerfile" =>
    /\ generated.text =
         generateDockerfile(Redacted(generated.config), generated.serviceName)
    /\ \A k \in 1..Len(generated.config.environmentVariables) :
         LET env == generated.config.environmentVariables[k]
         IN env.isSecret =>
              \E l \in 1..Len(generated.text) :
                generated.text[l] =
                  <<"# ", env.key, " - Set via secrets management">>
    /\ \A k \in 1..Len(generated.config.environmentVariables) :
         LET env == generated.config.environmentVariables[k]
         IN (env.isSecret /\ env.value # ""
               /\ Contains(generated.text, env.value)) =>
              Contains(generateDockerfile(
                         [generated.config EXCEPT
                            !.environmentVariables =
                               SelectSeq(@, LAMBDA e : ~e.isSecret)],
                         generated.serviceName),
                       env.value)

\* A multi-stage Dockerfile for a configuration with a secret variable whose
\* value no other input and no template text equals: the value is not in it.
C18_Witness ==
  /\ generated.kind = "dockerfile"
  /\ generated.config.buildType = "multi-stage"
  /\ generated.config.environmentVariables =
       <<[key |-> "API_KEY", value |-> "hunter2", isSecret |-> TRUE],
         [key |-> "MODE", value |-> "node", isSecret |-> FALSE]>>
  /\ ~Contains(generated.text, "hunter2")

\* The lines of the text that start a build stage.
FromLines(text) == {l \in 1..Len(text) : text[l][1] = "FROM "}

HasPiece(str, piece) == \E i \in 1..Len(str) : str[i] = piece

\* C19: a multi-stage Dockerfile has two FROM lines and its stage-2 image is
\* the stage-1 image with -alpine replaced by -slim, or with -slim replaced
\* by -alpine; a single-stage Dockerfile has exactly one FROM line.
C19_SlimmedStageTwo ==
  generated.kind = "dockerfile" =>
    LET text == generated.text
        base == IF generated.config.baseImage = <<>>
                THEN <<"node:20", "-alpine">> ELSE generated.config.baseImage
    IN IF generated.config.buildType = "multi-stage"
       THEN /\ Cardinality(FromLines(text)) = 2
            /\ \E l1, l2 \in FromLines(text) :
                 /\ l1 < l2
                 /\ text[l1] = <<"FROM ">> \o base \o <<" AS builder">>
                 /\ HasPiece(base, "-alpine") =>
                      text[l2] = <<"FROM ">> \o Replace(base, "-alpine", "-slim")
                 /\ (~HasPiece(base, "-alpine") /\ HasPiece(base, "-slim")) =>
                      text[l2] = <<"FROM ">> \o Replace(base, "-slim", "-alpine")
       ELSE Cardinality(FromLines(text)) = 1

\* The lines of the text that open a probe.
ProbeStarts(text) ==
  {l \in 1..Len(text) :
     text[l] \in {<<"livenessProbe:">>, <<"readinessProbe:">>}}

\* C20: the workload document has liveness and readiness probes iff the
\* container configuration has a health check: none without, exactly two
\* with, both with the health check's path and port and a period equal to
\* its interval, with initial delays 15 (liveness) and 5 (readiness).
C20_ProbesFromHealthCheck ==
  generated.kind \in {"k8s-route", "k8s-preview"} =>
    LET text == generated.text
        config == generated.config
    IN IF config.present /\ config.healthCheck.present
       THEN /\ Cardinality(ProbeStarts(text)) = 2
            /\ \E l, r \in ProbeStarts(text) :
                 /\ text[l] = <<"livenessProbe:">>
                 /\ text[r] = <<"readinessProbe:">>
                 /\ \A b \in {l, r} :
                      /\ text[b + 2] = <<"path: ", config.healthCheck.path>>
                      /\ text[b + 3] = <<"port: ", config.healthCheck.port>>
                      /\ text[b + 5] =
                           <<"periodSeconds: ",
                             config.healthCheck.intervalSeconds>>
                 /\ text[l + 4] = <<"initialDelaySeconds: ", "15">>
                 /\ text[r + 4] = <<"initialDelaySeconds: ", "5">>
       ELSE ProbeStarts(text) = {}

\* The line that renders one entry of a label or annotation map.
EntryLine(entry) == <<entry[1], ": \"", entry[2], "\"">>

\* The lines of `text` that follow the first line `header` directly, up to
\* the first line that does not render a map entry.
RECURSIVE EntryRun(_, _)
EntryRun(text, l) ==
  IF l <= Len(text) /\ Len(text[l]) = 4 /\ text[l][2] = ": \""
  THEN <<text[l]>> \o EntryRun(text, l + 1)
  ELSE <<>>

BlockAfter(text, header) ==
  IF \E l \in 1..Len(text) : text[l] = header
  THEN EntryRun(text, 1 + CHOOSE l \in 1..Len(text) :
                            text[l] = header
                            /\ \A j \in 1..(l - 1) : text[j] # header)
  ELSE <<>>

\* C21: the manifest text lists under `labels:` one line per key of the
\* label map merged with the app label, the entries of the label map in
\* their stored order and the app label with the lower-cased service name;
\* when the manifest has annotations it lists under `annotations:` one line
\* per entry of the annotation map, in stored order.
C21_MapsRenderedInOrder ==
  generated.kind \in {"k8s-route", "k8s-preview"} =>
    LET m == generated.manifest
        app == <<"app", toLowerCase(generated.serviceName)>>
        own == SelectSeq(m.labels, LAMBDA e : e[1] # "app")
        labels == BlockAfter(generated.text, <<"labels:">>)
    IN /\ SelectSeq(labels, LAMBDA line : line[1] # "app")
            = [k \in 1..Len(own) |-> EntryLine(own[k])]
       /\ SelectSeq(labels, LAMBDA line : line[1] = "app")
            = <<EntryLine(app)>>
       /\ (m.annotations.present /\ m.annotations.entries # <<>>) =>
            BlockAfter(generated.text, <<"annotations:">>)
              = [k \in 1..Len(m.annotations.entries) |->
                   EntryLine(m.annotations.entries[k])]

\* The same for the workspace's preview alone.
C21_PreviewRendersMaps ==
  generated.kind = "k8s-route" \/ C21_MapsRenderedInOrder

\* The persistence request answered in this step.
Answers(op) == h'.answer # h.answer /\ h'.answer.op = op

\* C22: a create whose body does not parse and a patch whose body does not
\* fit the project schema are answered with an error status, and the stored
\* projects are the same after the request as before.
C22_MalformedRejected ==
  [][/\ (Answers("POST") /\ ~insertProjectSchema(h'.answer.body)) =>
          (h'.answer.status >= 400 /\ server' = server)
     /\ (Answers("PATCH") /\ ~architectureProjectSchema(h'.answer.body)) =>
          (h'.answer.status >= 400 /\ server' = server)]_vars

\* The same for malformed creates alone.
C22_MalformedCreateRejected ==
  [][(Answers("POST") /\ ~insertProjectSchema(h'.answer.body)) =>
       (h'.answer.status >= 400 /\ server' = server)]_vars

\* What a consumer of the store sees of the recommendations.
RecommendationsView == <<recommendations, isGeneratingRecommendations>>

\* C23: when a recommendation request fails, the project is unchanged and
\* what the store shows of the recommendations differs from what it shows
\* after an answer with zero recommendations (an empty list, the flag down).
C23_FailureDistinctFromEmpty ==
  [][Answers("RECOMMEND") =>
       /\ project' = project
       /\ h'.answer.status >= 400 => RecommendationsView' # <<<<>>, FALSE>>]_vars

\* The part that holds: an answer, failure or list, leaves the project as it
\* is, and an answered list is what the store shows.
C23_AnswerLeavesProject ==
  [][Answers("RECOMMEND") =>
       /\ project' = project
       /\ h'.answer.status = 200 =>
            RecommendationsView' = <<h'.answer.body, FALSE>>]_vars

\* The step is an add, update or remove of a collection: a mutation that no
\* navigation click and no setPhase made.
CollectionMutation ==
  h'.mutations = h.mutations + 1 /\ h'.click.target = ""

C24_WitnessReference ==
  /\ project # NoProject
  /\ h.click.target = ""
  /\ "op" \in DOMAIN h.click
  /\ h.click.op = "remove"
  /\ h.click.collection = "services"
  /\ h.click.had
  /\ project.services = <<>>
  /\ project.containerConfigs # <<>>
  /\ project.containerConfigs[1].serviceId = h.click.id

\* The calls applied one after the other, each to the project the one before
\* produced.
RECURSIVE Sequential(_, _, _)
Sequential(prev, calls, t) ==
  IF calls = <<>> THEN prev
  ELSE Sequential(updateProjectLocal(prev, UpdatesOf(calls[1], prev), t),
                  Tail(calls), t)

\* The handler run last made these calls.
Batched == h.click.target = "" /\ "calls" \in DOMAIN h.click

\* C25: after a handler has called the store several times in a row the
\* project is the one the calls produce when each operates on the result of
\* the call before: no call's effect is lost.
C25_NoLostUpdate ==
  Batched =>
    project = Sequential(h.click.before, h.click.calls, project.updatedAt)

\* The part that holds: calls on different collections are all reflected.
C25_DistinctCollectionsKept ==
  (/\ Batched
   /\ \A j, k \in 1..Len(h.click.calls) :
        j # k => h.click.calls[j].collection # h.click.calls[k].collection)
  => project = Sequential(h.click.before, h.click.calls, project.updatedAt)

C27_EmptyWhileClosed ==
  project = NoProject => validationResults = <<>> /\ recommendations = <<>>

\* The part that holds: resetProject itself leaves both empty.
C27_ResetClears ==
  [][(project # NoProject /\ project' = NoProject) =>
       (validationResults' = <<>> /\ recommendations' = <<>>)]_vars

\* The auto-save writes issued in this step.
IssuedNow ==
  {w \in writes' \ writes : w.kind = "auto" /\ w.stage = "sent"}

\* C28: an auto-save write is issued only for a project that has been
\* mutated since it was created or loaded, with a snapshot not sent before;
\* and closing the project disarms the timer.
C28_WritesCarryMutations ==
  [][/\ \A w \in IssuedNow : h.mutations > 0 /\ w.snap \notin h.issued
     /\ (project # NoProject /\ project' = NoProject) => timer' = NoTimer]_vars

\* The part that holds: closing the project disarms the timer, and no
\* snapshot is sent twice.
C28_ResetCancels ==
  [][/\ \A w \in IssuedNow : w.snap \notin h.issued
     /\ (project # NoProject /\ project' = NoProject) => timer' = NoTimer]_vars

\* C29: every result the panel lists for the current phase renders, and the
\* three counters add up to the number of results listed.
C29_PanelRendersAndCounts ==
  /\ \A k \in 1..Len(phaseResults) : ValidationItemRenders(phaseResults[k])
  /\ passedCount + warningCount + failedCount = Len(phaseResults)

\* The part that holds: a result whose status the table knows is counted
\* exactly once.
C29_KnownStatusesCounted ==
  passedCount + warningCount + failedCount
    = Len(SelectSeq(phaseResults, ValidationItemRenders))

\* C30: the text one manifest generator answers is the text the other
\* produces for the same manifest, service name and container configuration.
C30_GeneratorsAgree ==
  /\ generated.kind = "k8s-preview" =>
       generated.text = K8sManifestRoute(generated.manifest,
                                         generated.serviceName,
                                         generated.config)
  /\ generated.kind = "k8s-route" =>
       generated.text = generateK8sManifest(generated.manifest,
                                            generated.serviceName,
                                            generated.config)

\* The part that holds: they agree on a manifest with a namespace, a replica
\* count other than zero and no annotation map.
C30_AgreeOnPlainManifests ==
  (/\ generated.kind \in {"k8s-preview", "k8s-route"}
   /\ generated.manifest.namespace # ""
   /\ generated.manifest.replicas # "0"
   /\ ~generated.manifest.annotations.present)
  => /\ generated.text = K8sManifestRoute(generated.manifest,
                                          generated.serviceName,
                                          generated.config)
     /\ generated.text = generateK8sManifest(generated.manifest,
                                             generated.serviceName,
                                             generated.config)

====
